---------------------------- MODULE Spec2Model ----------------------------
(***************************************************************************)
(* Bristol circuit text format: the writer (write_bristol, Gate's Display) *)
(* and the reader (read_info_and_bristol, BristolLine) of                  *)
(* src/src/bristol_circuit.rs, src/src/bristol_line.rs and src/src/gate.rs.*)
(*                                                                         *)
(* Text is a sequence of one-character strings; a stream is the text that  *)
(* is still unread.  Option values are sequences of length 0 or 1.         *)
(***************************************************************************)
EXTENDS Integers, Sequences, FiniteSets, TLC

(***************************************************************************)
(* Bounds of the model.                                                    *)
(***************************************************************************)
\* usize is modelled UsizeBits wide: parsing a larger number fails, and an
\* addition past UsizeMax overflows.
UsizeBits == 4
\* Longest gate list of a circuit that is written, and most gate lines of a
\* text that is read.
MaxGates == 2
\* Most blank lines inserted into one text.
MaxBlank == 2

UsizeMax == 2^UsizeBits - 1

None == <<>>
Some(x) == <<x>>

(***************************************************************************)
(* Characters and strings.                                                 *)
(***************************************************************************)
DigitChars == <<"0", "1", "2", "3", "4", "5", "6", "7", "8", "9">>

Digits == {DigitChars[i] : i \in 1..10}

\* char::is_whitespace, for the characters the model uses
Whitespace == {" ", "\t", "\n", "\r"}

DigitVal(ch) == (CHOOSE i \in 1..10 : DigitChars[i] = ch) - 1

\* Display for usize: the decimal digits, most significant first
RECURSIVE FormatUsize(_)
FormatUsize(n) ==
    IF n < 10 THEN <<DigitChars[n + 1]>>
    ELSE FormatUsize(n \div 10) \o <<DigitChars[(n % 10) + 1]>>

Min(S) == CHOOSE x \in S : \A y \in S : x <= y

Max(S) == CHOOSE x \in S : \A y \in S : x >= y

\* The positions of s that hold no whitespace
NonWhitespace(s) == {i \in 1..Len(s) : s[i] \notin Whitespace}

\* str::trim
Trim(s) ==
    IF NonWhitespace(s) = {} THEN <<>>
    ELSE SubSeq(s, Min(NonWhitespace(s)), Max(NonWhitespace(s)))

\* Where the maximal whitespace-free substrings of s start and end
TokenStarts(s) ==
    {i \in NonWhitespace(s) : i = 1 \/ s[i - 1] \in Whitespace}

TokenEnds(s) ==
    {i \in NonWhitespace(s) : i = Len(s) \/ s[i + 1] \in Whitespace}

\* The k-th smallest element of S
Kth(S, k) == CHOOSE x \in S : Cardinality({y \in S : y < x}) = k - 1

\* str::split_whitespace, collected: the maximal whitespace-free substrings
SplitWhitespace(s) ==
    [k \in 1..Cardinality(TokenStarts(s)) |->
        SubSeq(s, Kth(TokenStarts(s), k), Kth(TokenEnds(s), k))]

\* Results of a fallible call: Ok(v) or Err(e)
Ok(v) == [ok |-> TRUE, val |-> v]
Err(e) == [ok |-> FALSE, err |-> e]

ParsingError(fmt, args) ==
    [kind |-> "ParsingError", message |-> [fmt |-> fmt, args |-> args]]

Inconsistency(fmt) ==
    [kind |-> "Inconsistency", message |-> [fmt |-> fmt, args |-> <<>>]]

\* The value of a digit string, or UsizeMax + 1 once it passes UsizeMax
\* (the checked multiply-and-add of usize::from_str)
RECURSIVE DecValue(_, _)
DecValue(acc, s) ==
    IF s = <<>> THEN acc
    ELSE LET next == acc * 10 + DigitVal(Head(s))
         IN  IF next > UsizeMax THEN UsizeMax + 1 ELSE DecValue(next, Tail(s))

\* <usize as FromStr>::from_str: an optional "+", then one or more digits,
\* no overflow.  TRUE iff the token parses.
IsUsize(tok) ==
    LET body == IF tok # <<>> /\ Head(tok) = "+" THEN Tail(tok) ELSE tok
    IN  /\ body # <<>>
        /\ \A i \in 1..Len(body) : body[i] \in Digits
        /\ DecValue(0, body) <= UsizeMax

UsizeOf(tok) ==
    DecValue(0, IF Head(tok) = "+" THEN Tail(tok) ELSE tok)


\* An arithmetic overflow of a build with overflow checks ("attempt to add
\* with overflow"): the call does not return
Panic ==
    [kind |-> "Panic",
     message |-> [fmt |-> "attempt to add with overflow", args |-> <<>>]]

\* a + b on usize: with overflow checks (oc) a sum past UsizeMax panics,
\* without them it wraps
AddUsize(a, b, oc) ==
    IF a + b <= UsizeMax THEN Ok(a + b)
    ELSE IF oc THEN Err(Panic)
    ELSE Ok((a + b) % (UsizeMax + 1))

(***************************************************************************)
(* BristolLine: the tokens of one non-empty line.                          *)
(***************************************************************************)
\* BristolLine::get::<usize>
Get(bl, index) ==
    IF index >= Len(bl)
    THEN Err(ParsingError("Index {} out of bounds", <<index>>))
    ELSE IF ~IsUsize(bl[index + 1])
    THEN Err(ParsingError("Failed to convert at index {}", <<index>>))
    ELSE Ok(UsizeOf(bl[index + 1]))

\* BristolLine::get::<String>: String::from_str never fails
GetString(bl, index) ==
    IF index >= Len(bl)
    THEN Err(ParsingError("Index {} out of bounds", <<index>>))
    ELSE Ok(bl[index + 1])

\* BristolLine::get_str
GetStr(bl, index) ==
    IF index >= Len(bl)
    THEN Err(ParsingError("Index {} out of bounds", <<index>>))
    ELSE Ok(bl[index + 1])

\* BristolLine::circuit_sizes
CircuitSizesOf(bl) ==
    LET g == Get(bl, 0)
        w == Get(bl, 1)
    IN  IF ~g.ok THEN g
        ELSE IF ~w.ok THEN w
        ELSE Ok([gate_count |-> g.val, wire_count |-> w.val])

\* io_count, had it taken any positive width where it takes "1"
IoCountAnyWidth(bl, oc) ==
    LET count == Get(bl, 0)
        count1 == AddUsize(count.val, 1, oc)
        badWidth == {i \in 1..(Len(bl) - 1) :
                        ~Get(bl, i).ok \/ Get(bl, i).val = 0}
    IN  IF ~count.ok THEN count
        ELSE IF ~count1.ok THEN count1
        ELSE IF Len(bl) # count1.val
        THEN Err(ParsingError("Expected {} parts", <<count1.val>>))
        ELSE IF badWidth # {}
        THEN Err(ParsingError("Expected 1 at index {}", <<Min(badWidth)>>))
        ELSE Ok(count.val)

\* BristolLine::io_count
IoCount(bl, oc) ==
    LET count == Get(bl, 0)
        count1 == AddUsize(count.val, 1, oc)
        notOne == {i \in 1..(Len(bl) - 1) : GetStr(bl, i).val # <<"1">>}
    IN  IF ~count.ok THEN count
        ELSE IF ~count1.ok THEN count1
        ELSE IF Len(bl) # count1.val
        THEN Err(ParsingError("Expected {} parts", <<count1.val>>))
        ELSE IF notOne # {}
        THEN Err(ParsingError("Expected 1 at index {}", <<Min(notOne)>>))
        ELSE Ok(count.val)

\* BristolLine::gate
GateOf(bl, oc) ==
    LET input_len == Get(bl, 0)
        output_len == Get(bl, 1)
        sum == AddUsize(input_len.val, output_len.val, oc)
        expected_part_len == AddUsize(sum.val, 3, oc)
        badIn == {i \in 0..(input_len.val - 1) : ~Get(bl, i + 2).ok}
        badOut == {i \in 0..(output_len.val - 1) :
                      ~Get(bl, i + 2 + input_len.val).ok}
        op == GetString(bl, input_len.val + output_len.val + 2)
    IN  IF ~input_len.ok THEN input_len
        ELSE IF ~output_len.ok THEN output_len
        ELSE IF ~sum.ok THEN sum
        ELSE IF ~expected_part_len.ok THEN expected_part_len
        ELSE IF Len(bl) # expected_part_len.val
        THEN Err(ParsingError(
                 "Inconsistent part length (actual: {}, expected: {})",
                 <<Len(bl), expected_part_len.val>>))
        ELSE IF badIn # {} THEN Get(bl, Min(badIn) + 2)
        ELSE IF badOut # {} THEN Get(bl, Min(badOut) + 2 + input_len.val)
        ELSE IF ~op.ok THEN op
        ELSE Ok([inputs |-> [i \in 1..input_len.val |-> Get(bl, i + 1).val],
                 outputs |-> [i \in 1..output_len.val |->
                                 Get(bl, i + 1 + input_len.val).val],
                 op |-> op.val])

(***************************************************************************)
(* The writer.                                                             *)
(***************************************************************************)
\* " <n>" for every n of ns, in order
RECURSIVE SpaceSeparated(_)
SpaceSeparated(ns) ==
    IF ns = <<>> THEN <<>>
    ELSE <<" ">> \o FormatUsize(Head(ns)) \o SpaceSeparated(Tail(ns))

\* Display for Gate, had it written the outputs before the inputs
GateDisplayOutputsFirst(gate) ==
    FormatUsize(Len(gate.inputs)) \o <<" ">> \o FormatUsize(Len(gate.outputs))
        \o SpaceSeparated(gate.outputs) \o SpaceSeparated(gate.inputs)
        \o <<" ">> \o gate.op

\* impl Display for Gate
GateDisplay(gate) ==
    FormatUsize(Len(gate.inputs)) \o <<" ">> \o FormatUsize(Len(gate.outputs))
        \o SpaceSeparated(gate.inputs) \o SpaceSeparated(gate.outputs)
        \o <<" ">> \o gate.op

\* " 1" n + 1 times: 0..=n where the writer has 0..n
OnesInclusive(n) ==
    [k \in 1..(2 * (n + 1)) |-> IF k % 2 = 1 THEN " " ELSE "1"]

\* " 1" n times
RECURSIVE Ones(_)
Ones(n) == IF n = 0 THEN <<>> ELSE <<" ", "1">> \o Ones(n - 1)

\* writeln!(w, "{}", gate) for every gate, in order
RECURSIVE GateLines(_)
GateLines(gates) ==
    IF gates = <<>> THEN <<>>
    ELSE GateDisplay(Head(gates)) \o <<"\n">> \o GateLines(Tail(gates))

\* HashMap::len
MapLen(m) == Cardinality(DOMAIN m)

\* write_bristol, had it left out the writeln!(w) between header and gates
WriteBristolNoSeparator(c) ==
    FormatUsize(Len(c.gates)) \o <<" ">> \o FormatUsize(c.wire_count)
        \o <<"\n">>
        \o FormatUsize(MapLen(c.info.input_name_to_wire_index))
        \o Ones(MapLen(c.info.input_name_to_wire_index)) \o <<"\n">>
        \o FormatUsize(MapLen(c.info.output_name_to_wire_index))
        \o Ones(MapLen(c.info.output_name_to_wire_index)) \o <<"\n">>
        \o GateLines(c.gates)

\* BristolCircuit::write_bristol into an empty buffer
WriteBristol(c) ==
    FormatUsize(Len(c.gates)) \o <<" ">> \o FormatUsize(c.wire_count)
        \o <<"\n">>
        \o FormatUsize(MapLen(c.info.input_name_to_wire_index))
        \o Ones(MapLen(c.info.input_name_to_wire_index)) \o <<"\n">>
        \o FormatUsize(MapLen(c.info.output_name_to_wire_index))
        \o Ones(MapLen(c.info.output_name_to_wire_index)) \o <<"\n">>
        \o <<"\n">>
        \o GateLines(c.gates)

(***************************************************************************)
(* Streams.                                                                *)
(***************************************************************************)
\* Number of bytes BufRead::read_line takes: through the first "\n", or
\* everything when there is none
ReadLineLen(s) ==
    IF \E i \in 1..Len(s) : s[i] = "\n"
    THEN Min({i \in 1..Len(s) : s[i] = "\n"})
    ELSE Len(s)

\* The line read_line appends to its (empty) buffer, and the stream left
ReadLineOf(s) == SubSeq(s, 1, ReadLineLen(s))

AfterReadLine(s) == SubSeq(s, ReadLineLen(s) + 1, Len(s))

\* BufRead::lines, collected: the lines of s (each still with its "\n", which
\* every use trims away)
RECURSIVE Lines(_)
Lines(s) ==
    IF s = <<>> THEN <<>>
    ELSE <<ReadLineOf(s)>> \o Lines(AfterReadLine(s))


(***************************************************************************)
(* The reader: read_info_and_bristol, one step per line read.              *)
(***************************************************************************)
VARIABLES
    c,           \* Option: the circuit in memory that is written
    info,        \* the CircuitInfo handed to the reader
    text,        \* the Bristol text: written from c, or supplied
    r,           \* the reader's stream: the text not yet read
    pc,          \* the statement of read_info_and_bristol being run
    line,        \* Option: BristolLine::read's buffer after read_line
    bl,          \* Option: the BristolLine last returned by BristolLine::read
    gate_count,  \* locals of read_info_and_bristol
    wire_count,
    gates,
    trail,       \* Option: the stream when the loop over r.lines() starts
    result       \* Option: what read_info_and_bristol returned

vars ==
    <<c, info, text, r, pc, line, bl, gate_count, wire_count, gates, trail,
      result>>

OkCircuit(circuit) == [kind |-> "Ok", circuit |-> circuit]

\* The statements that call BristolLine::read
ReadingPcs == {"sizes", "inputs", "outputs", "gates"}

\* get_bristol_string: write_bristol into a fresh buffer
GetBristolString ==
    /\ pc = "write"
    /\ text' = WriteBristol(c[1])
    /\ pc' = "open"
    /\ UNCHANGED <<c, info, r, line, bl, gate_count, wire_count, gates,
                   trail, result>>

\* from_info_and_bristol_string: a BufReader over the text
FromInfoAndBristolString ==
    /\ pc = "open"
    /\ r' = text
    /\ pc' = "sizes"
    /\ UNCHANGED <<c, info, text, line, bl, gate_count, wire_count, gates,
                   trail, result>>

\* BristolLine::read: a fresh buffer and r.read_line(&mut line); at the end
\* of the stream read_line returns Ok(0) and leaves the buffer empty
ReadLine ==
    /\ pc \in ReadingPcs
    /\ result = None
    /\ line = None
    /\ line' = Some(ReadLineOf(r))
    /\ r' = AfterReadLine(r)
    /\ UNCHANGED <<c, info, text, pc, bl, gate_count, wire_count, gates,
                   trail, result>>

\* BristolLine::read: the trimmed line is empty, continue
SkipBlank ==
    /\ pc \in ReadingPcs
    /\ result = None
    /\ line # None
    /\ Trim(line[1]) = <<>>
    /\ line' = None
    /\ UNCHANGED <<c, info, text, r, pc, bl, gate_count, wire_count, gates,
                   trail, result>>

\* BristolLine::read, had it tested is_empty before trimming
HasLineBeforeTrim(p) ==
    /\ pc = p
    /\ result = None
    /\ line # None
    /\ line[1] # <<>>

\* BristolLine::read returns the tokens of a non-empty line
HasLine(p) ==
    /\ pc = p
    /\ result = None
    /\ line # None
    /\ Trim(line[1]) # <<>>

TokensOf(l) == SplitWhitespace(Trim(l))

\* 0..=gate_count where the gate loop has 0..gate_count
AfterGateInclusive(gs, gc) == IF Len(gs) <= gc THEN "gates" ELSE "trailing"

\* The statement after the port lines: the gate loop, or past it when it
\* has no iteration left
AfterGate(gs, gc) == IF Len(gs) < gc THEN "gates" ELSE "trailing"

\* let (gate_count, wire_count) = BristolLine::read(r)?.circuit_sizes()?
CircuitSizes ==
    /\ HasLine("sizes")
    /\ \E tokens \in {TokensOf(line[1])} :
         /\ bl' = Some(tokens)
         /\ \E sizes \in {CircuitSizesOf(tokens)} :
              IF sizes.ok
              THEN /\ gate_count' = sizes.val.gate_count
                   /\ wire_count' = sizes.val.wire_count
                   /\ pc' = "inputs"
                   /\ line' = None
                   /\ UNCHANGED result
              ELSE /\ result' = Some(sizes.err)
                   /\ UNCHANGED <<gate_count, wire_count, pc, line>>
    /\ UNCHANGED <<c, info, text, r, gates, trail>>

\* count < map.len() where the cross-check has count != map.len()
CountMismatchLess(count, map) == count < MapLen(map)

\* The test of a cross-check: count != map.len()
CountMismatch(count, map) == count # MapLen(map)

\* let input_count = BristolLine::read(r)?.io_count()? and its cross-check
InputCount ==
    /\ HasLine("inputs")
    /\ \E tokens \in {TokensOf(line[1])}, oc \in BOOLEAN :
         /\ bl' = Some(tokens)
         /\ \E input_count \in {IoCount(tokens, oc)} :
              IF ~input_count.ok
              THEN /\ result' = Some(input_count.err)
                   /\ UNCHANGED <<pc, line>>
              ELSE IF CountMismatch(input_count.val,
                                    info.input_name_to_wire_index)
              THEN /\ result' = Some(Inconsistency("Input count mismatch"))
                   /\ UNCHANGED <<pc, line>>
              ELSE /\ pc' = "outputs"
                   /\ line' = None
                   /\ UNCHANGED result
    /\ UNCHANGED <<c, info, text, r, gate_count, wire_count, gates, trail>>

\* let output_count = BristolLine::read(r)?.io_count()? and its cross-check;
\* then let mut gates = Vec::new() and the gate loop's first test
OutputCount ==
    /\ HasLine("outputs")
    /\ \E tokens \in {TokensOf(line[1])}, oc \in BOOLEAN :
         /\ bl' = Some(tokens)
         /\ \E output_count \in {IoCount(tokens, oc)} :
              IF ~output_count.ok
              THEN /\ result' = Some(output_count.err)
                   /\ UNCHANGED <<pc, line, trail>>
              ELSE IF CountMismatch(output_count.val,
                                    info.output_name_to_wire_index)
              THEN /\ result' = Some(Inconsistency("Output count mismatch"))
                   /\ UNCHANGED <<pc, line, trail>>
              ELSE /\ pc' = AfterGate(<<>>, gate_count)
                   /\ trail' = IF AfterGate(<<>>, gate_count) = "trailing"
                                THEN Some(r)
                                ELSE trail
                   /\ line' = None
                   /\ UNCHANGED result
    /\ UNCHANGED <<c, info, text, r, gate_count, wire_count, gates>>

\* gates.push(BristolLine::read(r)?.gate()?) and the loop's next test
ReadGate ==
    /\ HasLine("gates")
    /\ \E tokens \in {TokensOf(line[1])}, oc \in BOOLEAN :
         /\ bl' = Some(tokens)
         /\ \E gate \in {GateOf(tokens, oc)} :
              IF ~gate.ok
              THEN /\ result' = Some(gate.err)
                   /\ UNCHANGED <<pc, line, gates, trail>>
              ELSE /\ gates' = Append(gates, gate.val)
                   /\ pc' = AfterGate(Append(gates, gate.val), gate_count)
                   /\ trail' = IF AfterGate(Append(gates, gate.val),
                                             gate_count) = "trailing"
                                THEN Some(r)
                                ELSE trail
                   /\ line' = None
                   /\ UNCHANGED result
    /\ UNCHANGED <<c, info, text, r, gate_count, wire_count>>

\* The loop over r.lines(), had it not trimmed the line
TrailingLineUntrimmed ==
    /\ pc = "trailing"
    /\ result = None
    /\ r # <<>>
    /\ r' = AfterReadLine(r)
    /\ result' = IF ReadLineOf(r) \notin {<<>>, <<"\n">>}
                 THEN Some(ParsingError(
                          "Unexpected non-whitespace line after gates", <<>>))
                 ELSE None
    /\ UNCHANGED <<c, info, text, pc, line, bl, gate_count, wire_count,
                   gates, trail>>

\* for line in r.lines(): one line; a non-blank one is an error
TrailingLine ==
    /\ pc = "trailing"
    /\ result = None
    /\ r # <<>>
    /\ r' = AfterReadLine(r)
    /\ result' = IF Trim(ReadLineOf(r)) # <<>>
                 THEN Some(ParsingError(
                          "Unexpected non-whitespace line after gates", <<>>))
                 ELSE None
    /\ UNCHANGED <<c, info, text, pc, line, bl, gate_count, wire_count,
                   gates, trail>>

\* r.lines() is exhausted: Ok(BristolCircuit { wire_count, info, gates })
ReturnCircuit ==
    /\ pc = "trailing"
    /\ result = None
    /\ r = <<>>
    /\ result' = Some(OkCircuit([wire_count |-> wire_count, info |-> info,
                                 gates |-> gates]))
    /\ UNCHANGED <<c, info, text, r, pc, line, bl, gate_count, wire_count,
                   gates, trail>>

Next ==
    \/ GetBristolString
    \/ FromInfoAndBristolString
    \/ ReadLine
    \/ SkipBlank
    \/ CircuitSizes
    \/ InputCount
    \/ OutputCount
    \/ ReadGate
    \/ TrailingLine
    \/ ReturnCircuit


(***************************************************************************)
(* The inputs: circuits that are written and read back, and texts that are *)
(* read.                                                                   *)
(***************************************************************************)
AAdd == <<"A", "A", "d", "d">>

AMul == <<"A", "M", "u", "l">>

InputNames == <<"input0", "input1">>

OutputNames == <<"output0", "output1">>

\* A HashMap<String, usize> of the first n names, onto first, first + 1, ...
NameMap(names, n, first) ==
    [name \in {names[i] : i \in 1..n} |->
        first + (CHOOSE i \in 1..n : names[i] = name) - 1]

\* CircuitInfo of nin input names and nout output names, without constants
InfoOf(nin, nout) ==
    [input_name_to_wire_index |-> NameMap(InputNames, nin, 0),
     constants |-> NameMap(<<>>, 0, 0),
     output_name_to_wire_index |-> NameMap(OutputNames, nout, 3)]

GateRec(inputs, outputs, op) ==
    [inputs |-> inputs, outputs |-> outputs, op |-> op]

\* tests::create_sample_circuit: d = (a + b) * b
SampleCircuit ==
    [wire_count |-> 4,
     info |-> InfoOf(2, 1),
     gates |-> <<GateRec(<<0, 1>>, <<2>>, AAdd),
                 GateRec(<<2, 1>>, <<3>>, AMul)>>]

\* Gates of the circuits that are written: the sample's, one with two-digit
\* wires, one without wires, and op labels that are not one token
GatePool ==
    {GateRec(<<0, 1>>, <<2>>, AAdd),
     GateRec(<<2, 1>>, <<3>>, AMul),
     GateRec(<<10>>, <<11, 12>>, AMul),
     GateRec(<<>>, <<>>, AAdd),
     GateRec(<<0>>, <<1>>, <<>>),
     GateRec(<<0>>, <<1>>, <<"A", " ", "B">>),
     GateRec(<<>>, <<>>, <<"A", "\n">>)}

\* The sequences over S of length at most n
RECURSIVE SeqsUpTo(_, _)
SeqsUpTo(S, n) ==
    IF n = 0 THEN {<<>>}
    ELSE LET shorter == SeqsUpTo(S, n - 1)
         IN  shorter \cup {Append(q, x) : q \in shorter, x \in S}

InfoPool == {InfoOf(0, 0), InfoOf(2, 1), InfoOf(1, 0), InfoOf(0, 2)}

CircuitPool ==
    {[wire_count |-> w, info |-> i, gates |-> g] :
        w \in {4, 13}, i \in InfoPool, g \in SeqsUpTo(GatePool, MaxGates)}

\* The tokens joined by single spaces
RECURSIVE JoinTokens(_)
JoinTokens(toks) ==
    IF toks = <<>> THEN <<>>
    ELSE IF Len(toks) = 1 THEN Head(toks)
    ELSE Head(toks) \o <<" ">> \o JoinTokens(Tail(toks))

\* The lines, each ended by "\n"
RECURSIVE Assemble(_)
Assemble(ls) ==
    IF ls = <<>> THEN <<>>
    ELSE Head(ls) \o <<"\n">> \o Assemble(Tail(ls))

\* First lines: good ones, a third token, a bad and a missing number
SizesPool ==
    {<<"1", " ", "4">>,
     <<"0", " ", "4">>,
     <<" ", "+", "1", "\t", "0", "4", " ", "7">>,
     <<"x", " ", "4">>,
     <<"1">>}

\* Port lines: good ones, a width that is not "1", too few and too many
\* tokens, a count that is no number, and the largest count
PortPool ==
    {<<"0">>,
     <<"1", " ", "1">>,
     <<"2", " ", "1", " ", "1">>,
     <<"1", " ", "2">>,
     <<"1", " ", "0", "1">>,
     <<"2", " ", "1">>,
     <<"1", " ", "1", " ", "1">>,
     <<"x">>} \cup {FormatUsize(UsizeMax)}

\* Gate lines: good ones, the missing op label, one token too many, a wire
\* that is no number, and arities whose sum overflows
GateLinePool ==
    {JoinTokens(<<<<"2">>, <<"1">>, <<"0">>, <<"1">>, <<"2">>, AAdd>>),
     JoinTokens(<<<<"1">>, <<"1">>, <<"1", "0">>, <<"1", "1">>, AMul>>),
     JoinTokens(<<<<"0">>, <<"0">>, AMul>>),
     JoinTokens(<<<<"2">>, <<"1">>, <<"0">>, <<"1">>, <<"2">>>>),
     JoinTokens(<<<<"1">>, <<"1">>, <<"0">>, <<"1">>, <<"2">>, AAdd>>),
     JoinTokens(<<<<"2">>, <<"1">>, <<"0">>, <<"x">>, <<"2">>, AAdd>>),
     JoinTokens(<<FormatUsize(UsizeMax), <<"1">>, <<"0">>, AAdd>>),
     JoinTokens(<<FormatUsize(UsizeMax - 1), <<"1">>>>)}

\* What follows the gate lines: nothing, blank lines, and lines that are not
TrailPool ==
    {<<>>,
     <<"\n">>,
     <<" ", "\t", "\n", "\n", " ">>,
     <<"7", "\n">>,
     <<"\n", " ", "A", "A", "d", "d">>}

GoodGateLine == JoinTokens(<<<<"2">>, <<"1">>, <<"0">>, <<"1">>, <<"2">>, AAdd>>)

\* Texts that vary the three header lines, before one gate line
HeaderTexts ==
    {Assemble(<<s, i, o, GoodGateLine>>) :
        s \in SizesPool, i \in PortPool, o \in PortPool}

\* Texts that vary the gate count, the gate lines and what follows them
GateTexts ==
    {Assemble(<<<<n, " ", "4">>, <<"2", " ", "1", " ", "1">>,
                <<"1", " ", "1">>>>)
        \o Assemble(g) \o t :
        n \in {"0", "1", "2"}, g \in SeqsUpTo(GateLinePool, MaxGates),
        t \in TrailPool}

\* The lines of the texts into which blank lines are inserted: the sample
\* circuit's, a circuit without gates, a bad gate line, a bad port line, and
\* a gate line too few
BaseLines ==
    {<<<<"2", " ", "4">>, <<"2", " ", "1", " ", "1">>, <<"1", " ", "1">>,
       GoodGateLine,
       JoinTokens(<<<<"2">>, <<"1">>, <<"2">>, <<"1">>, <<"3">>, AMul>>)>>,
     <<<<"0", " ", "4">>, <<"0">>, <<"0">>>>,
     <<<<"1", " ", "4">>, <<"2", " ", "1", " ", "1">>, <<"1", " ", "1">>,
       <<"2", " ", "1", " ", "0", " ", "1", " ", "2">>>>,
     <<<<"1", " ", "4">>, <<"2", " ", "1">>, <<"1", " ", "1">>, GoodGateLine>>,
     <<<<"2", " ", "4">>, <<"2", " ", "1", " ", "1">>, <<"1", " ", "1">>,
       GoodGateLine>>}

\* Lines that are empty after trimming
BlankPool == {<<>>, <<" ", "\t">>}

\* p with the line b inserted after its first i lines
InsertLine(p, i, b) == SubSeq(p, 1, i) \o <<b>> \o SubSeq(p, i + 1, Len(p))

\* ls with up to k lines of BlankPool inserted anywhere
RECURSIVE WithBlanks(_, _)
WithBlanks(ls, k) ==
    IF k = 0 THEN {ls}
    ELSE LET fewer == WithBlanks(ls, k - 1)
         IN  fewer \cup
             UNION {{InsertLine(p, i, b) : i \in 0..Len(p), b \in BlankPool} :
                       p \in fewer}

BlankTexts ==
    {Assemble(ls) : ls \in UNION {WithBlanks(b, MaxBlank) : b \in BaseLines}}

\* The sample text and a blank line, cut off after any number of characters
TruncatedTexts ==
    LET whole == WriteBristol(SampleCircuit) \o <<" ", "\n">>
    IN  {SubSeq(whole, 1, n) : n \in 0..Len(whole)}

TextInputs ==
    {[c |-> None, info |-> i, text |-> t] :
        i \in InfoPool, t \in HeaderTexts}
    \cup {[c |-> None, info |-> InfoOf(2, 1), text |-> t] :
            t \in GateTexts \cup BlankTexts \cup TruncatedTexts}

CircuitInputs ==
    {[c |-> Some(x), info |-> x.info, text |-> <<>>] : x \in CircuitPool}

Init ==
    /\ \E inp \in TextInputs \cup CircuitInputs :
         /\ c = inp.c
         /\ info = inp.info
         /\ text = inp.text
         /\ pc = IF inp.c = None THEN "open" ELSE "write"
    /\ r = <<>>
    /\ line = None
    /\ bl = None
    /\ gate_count = 0
    /\ wire_count = 0
    /\ gates = <<>>
    /\ trail = None
    /\ result = None

Spec == Init /\ [][Next]_vars

\* The reads of the cut-off texts, and of the sample circuit's text
TruncatedInit ==
    /\ Init
    /\ \/ c = None /\ info = InfoOf(2, 1) /\ text \in TruncatedTexts
       \/ c = Some(SampleCircuit)

\* The call runs on: a statement that can be run is run
Fairness ==
    /\ WF_vars(GetBristolString)
    /\ WF_vars(FromInfoAndBristolString)
    /\ WF_vars(ReadLine)
    /\ WF_vars(SkipBlank)
    /\ WF_vars(CircuitSizes)
    /\ WF_vars(InputCount)
    /\ WF_vars(OutputCount)
    /\ WF_vars(ReadGate)
    /\ WF_vars(TrailingLine)
    /\ WF_vars(ReturnCircuit)

FairSpec == TruncatedInit /\ [][Next]_vars /\ Fairness


(***************************************************************************)
(* Vocabulary of the properties.                                           *)
(***************************************************************************)
Returned == result # None

ReturnedOk == Returned /\ result[1].kind = "Ok"

\* BristolLine::read has met the end of the stream: read_line read nothing,
\* the buffer is empty, and the loop goes round
AtEndOfStream ==
    /\ pc \in ReadingPcs
    /\ result = None
    /\ r = <<>>
    /\ line = Some(<<>>)

\* The token lists of the lines of s that are not blank
NonBlank(s) ==
    LET kept == SelectSeq(Lines(s), LAMBDA l : Trim(l) # <<>>)
    IN  [k \in 1..Len(kept) |-> TokensOf(kept[k])]

\* The text read so far
Consumed == SubSeq(text, 1, Len(text) - Len(r))

\* Every op label is one token: not empty, no whitespace in it
OpsAreTokens(circuit) ==
    \A k \in 1..Len(circuit.gates) :
        LET op == circuit.gates[k].op
        IN  op # <<>> /\ \A j \in 1..Len(op) : op[j] \notin Whitespace

\* No op label holds a line break
OpsOnOneLine(circuit) ==
    \A k \in 1..Len(circuit.gates) :
        LET op == circuit.gates[k].op
        IN  \A j \in 1..Len(op) : op[j] # "\n"

NumInputs(circuit) == MapLen(circuit.info.input_name_to_wire_index)

NumOutputs(circuit) == MapLen(circuit.info.output_name_to_wire_index)

\* A line without its "\n"
Chomp(l) ==
    IF l # <<>> /\ l[Len(l)] = "\n" THEN SubSeq(l, 1, Len(l) - 1) ELSE l

\* "<n>" followed by n tokens "1"
PortLine(n) == JoinTokens(<<FormatUsize(n)>> \o [k \in 1..n |-> <<"1">>])

\* "<in_arity> <out_arity> <inputs...> <outputs...> <op>"
GateLine(gate) ==
    JoinTokens(<<FormatUsize(Len(gate.inputs)), FormatUsize(Len(gate.outputs))>>
               \o [k \in 1..Len(gate.inputs) |-> FormatUsize(gate.inputs[k])]
               \o [k \in 1..Len(gate.outputs) |-> FormatUsize(gate.outputs[k])]
               \o <<gate.op>>)

\* The text has the shape the writer is to give circuit's: sizes, the two
\* port lines, one blank line, one line per gate, and no other blank line
HasWrittenShape(circuit, s) ==
    LET ls == Lines(s)
    IN  /\ Len(ls) = 4 + Len(circuit.gates)
        /\ \A k \in 1..Len(ls) : ls[k][Len(ls[k])] = "\n"
        /\ Chomp(ls[1]) = JoinTokens(<<FormatUsize(Len(circuit.gates)),
                                       FormatUsize(circuit.wire_count)>>)
        /\ Chomp(ls[2]) = PortLine(NumInputs(circuit))
        /\ Chomp(ls[3]) = PortLine(NumOutputs(circuit))
        /\ Chomp(ls[4]) = <<>>
        /\ \A k \in 1..Len(circuit.gates) :
              Chomp(ls[4 + k]) = GateLine(circuit.gates[k])
        /\ \A k \in 1..Len(ls) : (Trim(ls[k]) = <<>>) <=> (k = 4)

\* "2 4\n2 1 1\n1 1\n\n2 1 0 1 2 AAdd\n2 1 2 1 3 AMul\n"
SampleText ==
    <<"2", " ", "4", "\n",
      "2", " ", "1", " ", "1", "\n",
      "1", " ", "1", "\n",
      "\n",
      "2", " ", "1", " ", "0", " ", "1", " ", "2", " ", "A", "A", "d", "d", "\n",
      "2", " ", "1", " ", "2", " ", "1", " ", "3", " ", "A", "M", "u", "l", "\n">>

(***************************************************************************)
(* C1.  Round trip.                                                        *)
(***************************************************************************)
\* C1, as claimed: reading the text written from any circuit c, with c's
\* info, returns Ok with a circuit equal to c.
RoundTrip ==
    (c # None /\ Returned) => result[1] = OkCircuit(c[1])

\* C1, as amended: for every circuit c whose op labels are single tokens
\* (non-empty, without whitespace), the read of the text written from c
\* does not run off the end of the stream, and what it returns is Ok with a
\* circuit equal to c: same wire_count, same info, same gates in order.
RoundTripOfTokenLabels ==
    (c # None /\ OpsAreTokens(c[1])) =>
        /\ ~AtEndOfStream
        /\ Returned => result[1] = OkCircuit(c[1])

\* C1: a circuit of two gates, one with two-digit wires, has been read back
RoundTripWitness ==
    /\ c # None
    /\ ReturnedOk
    /\ Len(c[1].gates) = 2
    /\ \E k \in 1..2 : c[1].gates[k].inputs = <<10>>
    /\ NumInputs(c[1]) = 2

(***************************************************************************)
(* C7.  What the writer emits.                                             *)
(***************************************************************************)
\* C7, as claimed: for every circuit the text written is the sizes line,
\* the input port line, the output port line, exactly one blank line and
\* one line per gate in order, with no other blank line; the sample circuit
\* gives the sample text.
WriterShape ==
    (c # None /\ pc # "write") =>
        /\ HasWrittenShape(c[1], text)
        /\ c[1] = SampleCircuit => text = SampleText

\* C7, as amended: the same, for every circuit none of whose op labels
\* holds a line break.
WriterShapeOfOneLineLabels ==
    (c # None /\ pc # "write" /\ OpsOnOneLine(c[1])) =>
        /\ HasWrittenShape(c[1], text)
        /\ c[1] = SampleCircuit => text = SampleText

\* C7: the sample circuit has been written
WriterShapeWitness ==
    /\ c = Some(SampleCircuit)
    /\ pc = "open"
    /\ text # <<>>

(***************************************************************************)
(* C9.  Circuits without gates, inputs or outputs.                         *)
(***************************************************************************)
IsBoundary(circuit) ==
    \/ circuit.gates = <<>>
    \/ NumInputs(circuit) = 0
    \/ NumOutputs(circuit) = 0

\* The port line of a circuit without inputs, or without outputs, is "0"
ZeroPortLines(circuit, s) ==
    /\ NumInputs(circuit) = 0 => Lines(s)[2] = <<"0", "\n">>
    /\ NumOutputs(circuit) = 0 => Lines(s)[3] = <<"0", "\n">>

\* C9, as claimed: every circuit without gates, without inputs or without
\* outputs is written with "0" as the port line of an empty port list, and
\* reading the text back returns Ok with the circuit.
BoundaryRoundTrip ==
    (c # None /\ IsBoundary(c[1])) =>
        /\ pc # "write" => ZeroPortLines(c[1], text)
        /\ ~AtEndOfStream
        /\ Returned => result[1] = OkCircuit(c[1])

\* C9, as amended: every such circuit is written with "0" as the port line
\* of an empty port list; and when its op labels are single tokens (as they
\* are when it has no gates), reading the text back returns Ok with the
\* circuit.
BoundaryRoundTripOfTokenLabels ==
    (c # None /\ IsBoundary(c[1])) =>
        /\ pc # "write" => ZeroPortLines(c[1], text)
        /\ ~AtEndOfStream
        /\ (Returned /\ OpsAreTokens(c[1])) => result[1] = OkCircuit(c[1])

\* C9: a circuit without gates, inputs and outputs has been read back
BoundaryWitness ==
    /\ c # None
    /\ c[1].gates = <<>>
    /\ NumInputs(c[1]) = 0
    /\ NumOutputs(c[1]) = 0
    /\ ReturnedOk


(***************************************************************************)
(* The reader as a function of the non-blank lines.                        *)
(***************************************************************************)
\* The call never returns: BristolLine::read goes round at the end of the
\* stream
Diverges == [kind |-> "Diverges", message |-> [fmt |-> "", args |-> <<>>]]

\* read_info_and_bristol on a stream whose non-blank lines have the token
\* lists L, in a build with (oc) or without overflow checks
ReadNonBlank(i, L, oc) ==
    LET sizes == CircuitSizesOf(L[1])
        input_count == IoCount(L[2], oc)
        output_count == IoCount(L[3], oc)
        gc == sizes.val.gate_count
        stops == {k \in 1..gc : 3 + k > Len(L) \/ ~GateOf(L[3 + k], oc).ok}
    IN  IF Len(L) < 1 THEN Diverges
        ELSE IF ~sizes.ok THEN sizes.err
        ELSE IF Len(L) < 2 THEN Diverges
        ELSE IF ~input_count.ok THEN input_count.err
        ELSE IF input_count.val # MapLen(i.input_name_to_wire_index)
        THEN Inconsistency("Input count mismatch")
        ELSE IF Len(L) < 3 THEN Diverges
        ELSE IF ~output_count.ok THEN output_count.err
        ELSE IF output_count.val # MapLen(i.output_name_to_wire_index)
        THEN Inconsistency("Output count mismatch")
        ELSE IF stops # {}
        THEN IF 3 + Min(stops) > Len(L) THEN Diverges
             ELSE GateOf(L[3 + Min(stops)], oc).err
        ELSE IF Len(L) > 3 + gc
        THEN ParsingError("Unexpected non-whitespace line after gates", <<>>)
        ELSE OkCircuit([wire_count |-> sizes.val.wire_count, info |-> i,
                        gates |-> [k \in 1..gc |-> GateOf(L[3 + k], oc).val]])

\* The statement that parsed the line bl
BlPhase ==
    IF bl = None THEN "none"
    ELSE IF pc = "trailing" THEN (IF gates = <<>> THEN "outputs" ELSE "gates")
    ELSE IF Returned THEN pc
    ELSE IF pc = "inputs" THEN "sizes"
    ELSE IF pc = "outputs" THEN "inputs"
    ELSE IF gates = <<>> THEN "outputs"
    ELSE "gates"

\* The parser of the line bl returned an error, or panicked
BlRejected ==
    /\ Returned
    /\ pc = BlPhase
    /\ result[1].kind \in {"ParsingError", "Panic"}

\* A port line as io_count takes it: a count, then count tokens "1"
WellFormedPort(l) ==
    /\ l # <<>>
    /\ IsUsize(l[1])
    /\ Len(l) = UsizeOf(l[1]) + 1
    /\ \A k \in 2..Len(l) : l[k] = <<"1">>

\* A port line as claimed: a count, then count widths, positive integers
WidthsArePositive(l) ==
    /\ l # <<>>
    /\ IsUsize(l[1])
    /\ Len(l) = UsizeOf(l[1]) + 1
    /\ \A k \in 2..Len(l) : IsUsize(l[k]) /\ UsizeOf(l[k]) > 0


(***************************************************************************)
(* C2.  Termination of the read.                                           *)
(***************************************************************************)
\* C2, as claimed: every read of a finite stream returns; on a stream that
\* ends before the header lines or the declared gate lines are read it
\* returns an error.
ReadTerminates == <>Returned

\* C2, the part that holds: a read that does not return has reached the end
\* of a stream that lacks a header line or a declared gate line, and a read
\* of a stream that lacks none of them never waits at its end.
NeverReturnsOnlyWhenCutOff ==
    LET L == NonBlank(text)
    IN  AtEndOfStream =>
            \/ Len(L) < 3
            \/ Len(L) < 3 + gate_count

(***************************************************************************)
(* C3.  The cross-check of the port counts.                                *)
(***************************************************************************)
\* The count a port line declares differs from n
DeclaresOther(l, n) == l # <<>> /\ IsUsize(l[1]) /\ UsizeOf(l[1]) # n

\* The count a port line declares is n
Declares(l, n) == l # <<>> /\ IsUsize(l[1]) /\ UsizeOf(l[1]) = n

NumIn == MapLen(info.input_name_to_wire_index)

NumOut == MapLen(info.output_name_to_wire_index)

GateArity ==
    LET t == bl[1]
        ia == UsizeOf(t[1])
        oa == UsizeOf(t[2])
    IN  BlPhase = "gates" =>
          /\ ~BlRejected =>
                /\ Len(t) = ia + oa + 3
                /\ gates[Len(gates)] =
                      [inputs |-> [k \in 1..ia |-> UsizeOf(t[2 + k])],
                       outputs |-> [k \in 1..oa |-> UsizeOf(t[2 + ia + k])],
                       op |-> t[Len(t)]]
          /\ ( /\ Len(t) >= 2
               /\ IsUsize(t[1])
               /\ IsUsize(t[2])
               /\ Len(t) # ia + oa + 3 )
                => /\ Returned
                   /\ result[1].kind = "ParsingError"

FirstNotOne(l) == Min({k \in 1..(Len(l) - 1) : l[k + 1] # <<"1">>})

TrailingContentRule ==
    trail # None =>
        /\ Len(gates) = gate_count
        /\ pc = "trailing"
        /\ Returned =>
              IF \A k \in 1..Len(Lines(trail[1])) :
                    Trim(Lines(trail[1])[k]) = <<>>
              THEN result[1] = OkCircuit([wire_count |-> wire_count,
                                          info |-> info, gates |-> gates])
              ELSE result[1] = ParsingError(
                       "Unexpected non-whitespace line after gates", <<>>)

\* C6: three blank lines followed two gate lines, and the read returned Ok
TrailingContentWitness ==
    /\ trail # None
    /\ Len(Lines(trail[1])) = 3
    /\ gate_count = 2
    /\ ReturnedOk

(***************************************************************************)
(* C8.  Blank lines.                                                       *)
(***************************************************************************)
\* C8: what a read returns, or that it does not return, depends on the
\* text only through its lines that are not blank: two texts that differ
\* in blank or whitespace-only lines are read alike.
BlankLinesSkipped ==
    /\ Returned =>
          \E oc \in BOOLEAN :
              result[1] = ReadNonBlank(info, NonBlank(text), oc)
    /\ AtEndOfStream =>
          \A oc \in BOOLEAN :
              ReadNonBlank(info, NonBlank(text), oc) = Diverges

\* C8: a text with blank lines before the second header line and between
\* the gate lines has been read, and the read returned Ok
BlankLinesWitness ==
    /\ ReturnedOk
    /\ Len(gates) = 2
    /\ Trim(Lines(text)[2]) = <<>>
    /\ Trim(Lines(text)[6]) = <<>>
    /\ Len(Lines(text)) = 7

(***************************************************************************)
(* C10.  The order of the steps, and the first failure.                    *)
(***************************************************************************)
\* The non-blank lines read so far
NumRead == Len(NonBlank(Consumed))

\* A non-blank line has been read and not yet parsed
Pending == ~Returned /\ line # None /\ Trim(line[1]) # <<>>

\* The non-blank lines the statements before pc have read
ReadBefore ==
    IF pc = "sizes" THEN 0
    ELSE IF pc = "inputs" THEN 1
    ELSE IF pc = "outputs" THEN 2
    ELSE 3 + Len(gates)

=============================================================================
